---- MODULE Spec2Model ----
(***************************************************************************)
(* cat-zip: scan a directory for .zip / .gz files, extract them and append  *)
(* every extracted payload to one concatenated "blob" file (src/main.go).   *)
(*                                                                          *)
(* Paths and file contents are sequences of one-character strings, so that  *)
(* filepath.Clean/Join/Dir/Base/Ext, strings.HasPrefix/TrimSuffix and the   *)
(* "%s(%d)%s" renaming are computed on characters as the Go code does.      *)
(* All paths of the model are absolute (rooted at "/").                     *)
(***************************************************************************)
EXTENDS Naturals, Sequences, FiniteSets, TLC

VARIABLES
    pc,            \* position of main: "scan", "opencat", "run", "done", "aborted"
    ext,           \* the -ext flag
    dir,           \* the -dir flag
    filesInDir,    \* main's filesInDir, the scan result
    walkErr,       \* TRUE when WalkDir returned a traversal error
    catFile,       \* "nil" before/without a successful open, "open" otherwise
    files,         \* the file system's regular files: path -> bytes
    dirs,          \* the file system's directories
    unzipedFiles,  \* the collision table: path -> counter
    idx,           \* number of input files the extraction loop has taken
    log,           \* history: one record per unzipFile call / handleGz iteration
    outFiles,      \* history: file paths opened for writing by an extraction
    madeDirs,      \* history: directories created by an extraction
    sepErr         \* history: TRUE once a write of the newline separator failed

vars == <<pc, ext, dir, filesInDir, walkErr, catFile, files, dirs,
          unzipedFiles, idx, log, outFiles, madeDirs, sepErr>>

----------------------------------------------------------------------------
(* Bounds *)

MaxEntries == 3

----------------------------------------------------------------------------
(* Characters and sequences *)

SEP == "/"
NL == <<"\n">>

Last(s) == s[Len(s)]

IsPrefixOf(p, s) == Len(p) <= Len(s) /\ SubSeq(s, 1, Len(p)) = p

IsSuffixOf(p, s) == Len(p) <= Len(s) /\ SubSeq(s, Len(s) - Len(p) + 1, Len(s)) = p

\* strings.HasPrefix
HasPrefix(s, prefix) == IsPrefixOf(prefix, s)

\* strings.TrimSuffix
TrimSuffix(s, suffix) ==
    IF IsSuffixOf(suffix, s) THEN SubSeq(s, 1, Len(s) - Len(suffix)) ELSE s

\* index of the last SEP of s, 0 when there is none
RECURSIVE LastSepFrom(_, _)
LastSepFrom(s, i) ==
    IF i = 0 THEN 0 ELSE IF s[i] = SEP THEN i ELSE LastSepFrom(s, i - 1)

LastSep(s) == LastSepFrom(s, Len(s))

\* the elements of s between separators, empty elements dropped
RECURSIVE SplitFrom(_, _, _)
SplitFrom(s, i, cur) ==
    IF i > Len(s)
    THEN IF cur = <<>> THEN <<>> ELSE <<cur>>
    ELSE IF s[i] = SEP
         THEN (IF cur = <<>> THEN <<>> ELSE <<cur>>) \o SplitFrom(s, i + 1, <<>>)
         ELSE SplitFrom(s, i + 1, Append(cur, s[i]))

Split(s) == SplitFrom(s, 1, <<>>)

DOT == <<".">>
DOTDOT == <<".", ".">>

\* filepath.Clean's element rules on a rooted path: "." is dropped, ".."
\* removes the element before it, ".." at the root is dropped
RECURSIVE CleanElems(_, _)
CleanElems(es, acc) ==
    IF es = <<>> THEN acc
    ELSE IF Head(es) = DOT THEN CleanElems(Tail(es), acc)
    ELSE IF Head(es) = DOTDOT
         THEN CleanElems(Tail(es),
                         IF acc = <<>> THEN acc ELSE SubSeq(acc, 1, Len(acc) - 1))
         ELSE CleanElems(Tail(es), Append(acc, Head(es)))

RECURSIVE JoinElems(_)
JoinElems(es) ==
    IF es = <<>> THEN <<>> ELSE <<SEP>> \o Head(es) \o JoinElems(Tail(es))

\* filepath.Clean of a rooted path
Clean(p) ==
    LET es == CleanElems(Split(p), <<>>)
    IN  IF es = <<>> THEN <<SEP>> ELSE JoinElems(es)

\* filepath.Join of a rooted path and one more element (empty elements are ignored)
Join(a, b) == Clean(IF b = <<>> THEN a ELSE a \o <<SEP>> \o b)

\* filepath.Dir of a rooted clean path
Dir(p) ==
    LET i == LastSep(p)
    IN  IF i <= 1 THEN <<SEP>> ELSE Clean(SubSeq(p, 1, i - 1))

\* filepath.Base of a rooted clean path
Base(p) ==
    IF p = <<SEP>> THEN <<SEP>> ELSE SubSeq(p, LastSep(p) + 1, Len(p))

\* filepath.Ext: the suffix beginning at the final dot of the final element
RECURSIVE ExtFrom(_, _)
ExtFrom(p, i) ==
    IF i = 0 \/ p[i] = SEP THEN <<>>
    ELSE IF p[i] = "." THEN SubSeq(p, i, Len(p))
    ELSE ExtFrom(p, i - 1)

Ext(p) == ExtFrom(p, Len(p))

\* fmt.Sprintf("%d", n)
FormatUint(n) == <<ToString(n)>>

----------------------------------------------------------------------------
(* Flags *)

outdir == <<"/", "o">>
outdirCatFileName == <<"b">>
GZ == <<".", "g", "z">>
ZIP == <<".", "z", "i", "p">>

\* the unmatched file, the two gzip inputs and the two archives a scanned
\* directory may hold, in WalkDir's lexical order
Tree == << <<"a", ".", "t", ".", "g", "z">>,
           <<"b", ".", "g", "z">>,
           <<"n", ".", "t">>,
           <<"x", ".", "z", "i", "p">>,
           <<"y", ".", "z", "i", "p">> >>

InDirs == { <<"/", "i">>, outdir }

\* the flags of a run: gzip mode with the input beside or inside outdir, zip
\* mode with the archives in their own directory
Flags == [ext : {GZ}, dir : InDirs] \cup [ext : {ZIP}, dir : {<<"/", "i">>}]

\* the scanned directory is empty or holds every file of Tree
Trees == { {}, 1..Len(Tree) }

A1 == <<"1">>
A2 == <<"2">>
Contents == {A1, A2}

\* zip.File: the declared name, FileInfo().IsDir() and the decompressed bytes
FileNames == { <<"a", ".", "t">>,
               <<"b">>,
               <<"d", "/", ".", "/", "a", ".", "t">>,
               <<".", ".", "/", "o", "2", "/", "a", ".", "t">> }

DirNames == { <<"d", "/">>, <<"b", "/">> }

ZipEntries ==
    [Name : FileNames, IsDir : {FALSE}, Content : Contents]
        \cup [Name : DirNames, IsDir : {TRUE}, Content : {<<>>}]

\* injected I/O errors: none, io.Copy to the output file, io.Copy to catFile,
\* the WriteString of the separator
Faults == {"none", "copy", "cat", "nl"}

----------------------------------------------------------------------------
(* File system *)

NoFiles == [p \in {} |-> <<>>]

RECURSIVE Ancestors(_)
Ancestors(p) == IF p = <<SEP>> THEN {p} ELSE {p} \cup Ancestors(Dir(p))

\* os.MkdirAll succeeds unless the path or one of its parents is a regular file
MkdirAllOk(fs, p) == Ancestors(p) \cap DOMAIN fs = {}

\* os.OpenFile(O_WRONLY|O_CREATE|O_TRUNC) / os.Create succeed when the parent
\* is a directory and the path is not one
OpenFileOk(ds, p) == p \notin ds /\ Dir(p) \in ds

Put(fs, p, bytes) == [q \in DOMAIN fs \cup {p} |-> IF q = p THEN bytes ELSE fs[q]]

Bump(m, p) == [q \in DOMAIN m \cup {p} |->
                 IF q = p THEN (IF p \in DOMAIN m THEN m[p] + 1 ELSE 1) ELSE m[q]]

StrictPrefixes(s) == { SubSeq(s, 1, k) : k \in 0..(Len(s) - 1) }

catFilePath == Join(outdir, outdirCatFileName)

\* the aggregate file's bytes
Agg == IF catFilePath \in DOMAIN files THEN files[catFilePath] ELSE <<>>

----------------------------------------------------------------------------
(* main: scan and open of the aggregate file *)

\* the state at the start of main: the input and output directories exist and
\* hold no regular file of interest yet, the collision table is empty
Init ==
    /\ pc = "scan"
    /\ \E fl \in Flags : ext = fl.ext /\ dir = fl.dir
    /\ filesInDir = <<>>
    /\ walkErr = FALSE
    /\ catFile = "nil"
    /\ files = NoFiles
    /\ dirs = {<<SEP>>} \cup InDirs
    /\ unzipedFiles = NoFiles
    /\ idx = 0
    /\ log = <<>>
    /\ outFiles = {}
    /\ madeDirs = {}
    /\ sepErr = FALSE

\* the WalkDir callback over the visited files: those whose extension is ext
Matching(visited) == SelectSeq(visited, LAMBDA p : Ext(Base(p)) = ext)

\* the paths WalkDir passes to the callback for the files S of the tree
RECURSIVE WalkFrom(_, _)
WalkFrom(S, i) ==
    IF i > Len(Tree) THEN <<>>
    ELSE (IF i \in S THEN <<Join(dir, Tree[i])>> ELSE <<>>) \o WalkFrom(S, i + 1)

\* filepath.WalkDir; its error return is dropped by main
Scan ==
    /\ pc = "scan"
    /\ \E S \in Trees :
         LET walk == WalkFrom(S, 1) IN
         \E err \in BOOLEAN, k \in 0..Len(walk) :
            /\ err \/ k = Len(walk)
            /\ filesInDir' = Matching(SubSeq(walk, 1, k))
            /\ walkErr' = err
    /\ pc' = "opencat"
    /\ UNCHANGED <<ext, dir, catFile, files, dirs, unzipedFiles, idx, log,
                   outFiles, madeDirs, sepErr>>

\* os.OpenFile(catFilePath, O_APPEND|O_CREATE|O_WRONLY|O_TRUNC); the error is dropped
OpenCat ==
    /\ pc = "opencat"
    /\ \E ok \in BOOLEAN :
         IF ok /\ OpenFileOk(dirs, catFilePath)
         THEN catFile' = "open" /\ files' = Put(files, catFilePath, <<>>)
         ELSE catFile' = "nil" /\ files' = files
    /\ pc' = "run"
    /\ UNCHANGED <<ext, dir, filesInDir, walkErr, dirs, unzipedFiles, idx, log,
                   outFiles, madeDirs, sepErr>>

GzMode == Ext(ext) = GZ

----------------------------------------------------------------------------
(* Writes *)

\* the O_TRUNC of os.OpenFile / os.Create on a path that can be opened
Truncate(fs, p) == Put(fs, p, <<>>)

\* a write of bytes at offset 0 through a handle opened without O_APPEND
WriteAt0(fs, p, bytes) ==
    Put(fs, p, bytes \o SubSeq(fs[p], Len(bytes) + 1, Len(fs[p])))

\* a write through catFile, opened with O_APPEND: always at the end of the file
AppendTo(fs, p, bytes) == Put(fs, p, fs[p] \o bytes)

\* catFile.WriteString("\n"), its error dropped
WriteNewline(fs, fault) ==
    IF fault = "nl" THEN fs ELSE AppendTo(fs, catFilePath, NL)

\* os.MkdirAll(p) on a path it can create
MkdirAll(ds, p) == ds \cup Ancestors(p)

Rec(name, isDir, content, joined, path, err) ==
    [Name |-> name, IsDir |-> isDir, Content |-> content,
     Joined |-> joined, Path |-> path, Err |-> err]

NoPath == <<>>

----------------------------------------------------------------------------
(* Collision naming *)

Renamed(filePath, counter) ==
    LET d == Dir(filePath)
        e == Ext(filePath)
        base == Base(filePath)
        fileName == SubSeq(base, 1, Len(base) - Len(e))
    IN  Join(d, fileName \o <<"(">> \o FormatUint(counter) \o <<")">> \o e)

autoRenameRepeatedFiles(filePath) ==
    IF filePath \in DOMAIN unzipedFiles
    THEN Renamed(filePath, unzipedFiles[filePath])
    ELSE filePath

----------------------------------------------------------------------------
(* Zip extraction *)

\* filepath.Abs(*outdir): outdir is absolute, so Abs is Clean and cannot fail
destination == Clean(outdir)

\* the check without the trailing separator: a sibling of the output root
\* whose name extends the root's name passes it
ZipSlipNoSeparator(filePath, dest) == HasPrefix(filePath, Clean(dest))

\* the Zip Slip check of unzipFile
ZipSlipOk(filePath, dest) == HasPrefix(filePath, Clean(dest) \o <<SEP>>)

\* unzipFile returning the "invalid file path" error
UnzipInvalid(f, filePath) ==
    /\ log' = Append(log, Rec(f.Name, f.IsDir, f.Content, filePath, NoPath, TRUE))
    /\ UNCHANGED <<files, dirs, unzipedFiles, outFiles, madeDirs, sepErr>>

\* the collision-table update that ends unzipFile
Register(table, filePath) == Bump(table, filePath)

\* a directory branch without its return: the entry also gets a separator in
\* the aggregate file and a collision-table entry
UnzipDirectoryFallsThrough(f, filePath) ==
    IF MkdirAllOk(files, filePath)
    THEN /\ dirs' = MkdirAll(dirs, filePath)
         /\ madeDirs' = madeDirs \cup (Ancestors(filePath) \ dirs)
         /\ log' = Append(log, Rec(f.Name, TRUE, f.Content, filePath, filePath, FALSE))
         /\ files' = IF catFile = "open" THEN AppendTo(files, catFilePath, NL) ELSE files
         /\ unzipedFiles' = Register(unzipedFiles, filePath)
         /\ UNCHANGED <<outFiles, sepErr>>
    ELSE /\ log' = Append(log, Rec(f.Name, TRUE, f.Content, filePath, NoPath, TRUE))
         /\ UNCHANGED <<files, dirs, unzipedFiles, outFiles, madeDirs, sepErr>>

\* unzipFile on a directory entry
UnzipDirectory(f, filePath) ==
    IF MkdirAllOk(files, filePath)
    THEN /\ dirs' = MkdirAll(dirs, filePath)
         /\ madeDirs' = madeDirs \cup (Ancestors(filePath) \ dirs)
         /\ log' = Append(log, Rec(f.Name, TRUE, f.Content, filePath, filePath, FALSE))
         /\ UNCHANGED <<files, unzipedFiles, outFiles, sepErr>>
    ELSE /\ log' = Append(log, Rec(f.Name, TRUE, f.Content, filePath, NoPath, TRUE))
         /\ UNCHANGED <<files, dirs, unzipedFiles, outFiles, madeDirs, sepErr>>

\* unzipFile on a regular entry
UnzipRegular(f, joined, fault) ==
    IF ~MkdirAllOk(files, Dir(joined))
    THEN /\ log' = Append(log, Rec(f.Name, FALSE, f.Content, joined, NoPath, TRUE))
         /\ UNCHANGED <<files, dirs, unzipedFiles, outFiles, madeDirs, sepErr>>
    ELSE
    LET ds == MkdirAll(dirs, Dir(joined))
        filePath == autoRenameRepeatedFiles(joined)
    IN  /\ dirs' = ds
        /\ madeDirs' = madeDirs \cup (ds \ dirs)
        /\ IF ~OpenFileOk(ds, filePath)
           THEN /\ log' = Append(log, Rec(f.Name, FALSE, f.Content, joined, NoPath, TRUE))
                /\ UNCHANGED <<files, unzipedFiles, outFiles, sepErr>>
           ELSE
           LET fs1 == Truncate(files, filePath) IN
           /\ outFiles' = outFiles \cup {filePath}
           /\ IF fault = "copy"
              THEN \* copyToFile(f, destinationFile) fails part-way
                   /\ \E part \in StrictPrefixes(f.Content) :
                         files' = WriteAt0(fs1, filePath, part)
                   /\ log' = Append(log, Rec(f.Name, FALSE, f.Content, joined, filePath, TRUE))
                   /\ UNCHANGED <<unzipedFiles, sepErr>>
              ELSE
              LET fs2 == WriteAt0(fs1, filePath, f.Content) IN
              IF catFile = "nil"
              THEN \* copyToFile(f, catFile) on the nil handle
                   /\ files' = fs2
                   /\ log' = Append(log, Rec(f.Name, FALSE, f.Content, joined, filePath, TRUE))
                   /\ UNCHANGED <<unzipedFiles, sepErr>>
              ELSE IF fault = "cat"
              THEN \* copyToFile(f, catFile) fails part-way
                   /\ \E part \in StrictPrefixes(f.Content) :
                         files' = AppendTo(fs2, catFilePath, part)
                   /\ log' = Append(log, Rec(f.Name, FALSE, f.Content, joined, filePath, TRUE))
                   /\ UNCHANGED <<unzipedFiles, sepErr>>
              ELSE /\ files' = WriteNewline(AppendTo(fs2, catFilePath, f.Content), fault)
                   /\ sepErr' = (sepErr \/ fault = "nl")
                   /\ unzipedFiles' = Register(unzipedFiles, filePath)
                   /\ log' = Append(log, Rec(f.Name, FALSE, f.Content, joined, filePath, FALSE))

unzipFile(f, dest, fault) ==
    LET filePath == Join(dest, f.Name) IN
    IF ~ZipSlipOk(filePath, dest) THEN UnzipInvalid(f, filePath)
    ELSE IF f.IsDir THEN UnzipDirectory(f, filePath)
    ELSE UnzipRegular(f, filePath, fault)

\* handleZip: zip.OpenReader on the next archive of filesInDir
ZipOpenReader ==
    /\ pc = "run"
    /\ ~GzMode
    /\ idx < Len(filesInDir)
    /\ idx' = idx + 1
    /\ \E ok \in BOOLEAN : pc' = IF ok THEN "run" ELSE "aborted"
    /\ UNCHANGED <<ext, dir, filesInDir, walkErr, catFile, files, dirs,
                   unzipedFiles, log, outFiles, madeDirs, sepErr>>

\* handleZip: unzipFile on the next entry of the open archive, log.Fatal on error
ZipEntry ==
    /\ pc = "run"
    /\ ~GzMode
    /\ idx >= 1
    /\ Len(log) < MaxEntries
    /\ \E f \in ZipEntries, fault \in Faults : unzipFile(f, destination, fault)
    /\ pc' = IF Last(log').Err THEN "aborted" ELSE "run"
    /\ UNCHANGED <<ext, dir, filesInDir, walkErr, catFile, idx>>

\* main returns after the last input file
Finish ==
    /\ pc = "run"
    /\ idx = Len(filesInDir)
    /\ pc' = "done"
    /\ UNCHANGED <<ext, dir, filesInDir, walkErr, catFile, files, dirs,
                   unzipedFiles, idx, log, outFiles, madeDirs, sepErr>>

----------------------------------------------------------------------------
(* Gzip extraction *)

\* handleGz: one iteration of the loop over filesInDir
GzFile ==
    /\ pc = "run"
    /\ GzMode
    /\ idx < Len(filesInDir)
    /\ idx' = idx + 1
    /\ \E content \in Contents, fault \in Faults \cup {"gzip"} :
         LET gzFilename == filesInDir[idx + 1]
             newFilename == autoRenameRepeatedFiles(TrimSuffix(gzFilename, GZ))
         IN
         IF ~OpenFileOk(dirs, newFilename)
         THEN /\ log' = Append(log, Rec(gzFilename, FALSE, content, newFilename, NoPath, TRUE))
              /\ UNCHANGED <<files, outFiles, sepErr>>
         ELSE
         LET fs1 == Truncate(files, newFilename) IN
         /\ outFiles' = outFiles \cup {newFilename}
         /\ IF fault = "gzip"
            THEN \* gzip.NewReader rejects the input
                 /\ files' = fs1
                 /\ log' = Append(log, Rec(gzFilename, FALSE, content, newFilename, newFilename, TRUE))
                 /\ UNCHANGED sepErr
            ELSE IF fault = "copy"
            THEN /\ \E part \in StrictPrefixes(content) :
                       files' = WriteAt0(fs1, newFilename, part)
                 /\ log' = Append(log, Rec(gzFilename, FALSE, content, newFilename, newFilename, TRUE))
                 /\ UNCHANGED sepErr
            ELSE
            LET fs2 == WriteAt0(fs1, newFilename, content) IN
            IF catFile = "nil"
            THEN /\ files' = fs2
                 /\ log' = Append(log, Rec(gzFilename, FALSE, content, newFilename, newFilename, TRUE))
                 /\ UNCHANGED sepErr
            ELSE IF fault = "cat"
            THEN /\ \E part \in StrictPrefixes(content) :
                       files' = AppendTo(fs2, catFilePath, part)
                 /\ log' = Append(log, Rec(gzFilename, FALSE, content, newFilename, newFilename, TRUE))
                 /\ UNCHANGED sepErr
            ELSE /\ files' = WriteNewline(AppendTo(fs2, catFilePath, content), fault)
                 /\ sepErr' = (sepErr \/ fault = "nl")
                 /\ log' = Append(log, Rec(gzFilename, FALSE, content, newFilename, newFilename, FALSE))
    /\ pc' = IF Last(log').Err THEN "aborted" ELSE "run"
    /\ UNCHANGED <<ext, dir, filesInDir, walkErr, catFile, dirs, unzipedFiles, madeDirs>>

----------------------------------------------------------------------------

Next == Scan \/ OpenCat \/ ZipOpenReader \/ ZipEntry \/ GzFile \/ Finish

Spec == Init /\ [][Next]_vars

----------------------------------------------------------------------------
(* Vocabulary of the properties *)

\* p lies strictly inside the directory root
Within(root, p) ==
    /\ Len(p) > Len(root) + 1
    /\ SubSeq(p, 1, Len(root)) = root
    /\ p[Len(root) + 1] = SEP

\* the payloads of the entries extracted so far, each followed by a newline
RECURSIVE PayloadsUpTo(_)
PayloadsUpTo(n) ==
    IF n = 0 THEN <<>>
    ELSE PayloadsUpTo(n - 1)
             \o (IF log[n].IsDir THEN <<>> ELSE log[n].Content \o NL)

Payloads == PayloadsUpTo(Len(log))

\* the entries that were written to a file of their own
Written == { i \in DOMAIN log : ~log[i].IsDir /\ log[i].Path # NoPath }

\* the step is one unzipFile call
ZipStep == ~GzMode /\ Len(log') = Len(log) + 1

\* the files and directories a step creates or changes
Touched ==
    { p \in DOMAIN files' : p \notin DOMAIN files \/ files'[p] # files[p] }
        \cup (dirs' \ dirs) \cup (outFiles' \ outFiles)

----------------------------------------------------------------------------
(* C2 *)

----------------------------------------------------------------------------
(* C7 *)

\* C7: unzipFile on a directory entry inside the output root creates the
\* directory tree and leaves the regular files (the aggregate file among them)
\* and the collision table exactly as they were.
C7_DirectoryEntryFrame ==
    [][(ZipStep /\ Last(log').IsDir /\ Within(destination, Last(log').Joined)) =>
        LET r == Last(log') IN
        /\ files' = files
        /\ Agg' = Agg
        /\ unzipedFiles' = unzipedFiles
        /\ ~r.Err => (Ancestors(r.Joined) \subseteq dirs' /\ pc' = "run")
        /\ r.Err => (dirs' = dirs /\ pc' = "aborted")]_vars

\* a directory entry was processed after a regular entry had filled the
\* aggregate file and the collision table
C7_Witness ==
    /\ ~GzMode /\ Len(log) >= 2
    /\ Last(log).IsDir /\ ~Last(log).Err
    /\ Last(log).Joined \in dirs /\ Last(log).Joined \in madeDirs
    /\ Agg # <<>>
    /\ DOMAIN unzipedFiles # {}

----------------------------------------------------------------------------
(* C1 *)

\* no two regular entries of the run resolve to the same output path
NoSharedPath ==
    \A i, j \in DOMAIN log :
        (i < j /\ ~log[i].IsDir /\ ~log[j].IsDir) => log[i].Joined # log[j].Joined

\* C1: at the end of a successful zip-mode run without two regular entries on one
\* output path, the aggregate file is the concatenation, in discovery order, of
\* every regular entry's content followed by one newline, whatever the entry
\* names are (the aggregate file's own path included). Stated for the runs in
\* which no write of a separator failed.
C1_AggregateIsConcatenation ==
    (~GzMode /\ pc = "done" /\ ~sepErr /\ NoSharedPath) => Agg = Payloads

----------------------------------------------------------------------------
(* C3 *)

\* C3: in zip mode no two regular entries of one run are written to the same
\* output file path.
C3_NoTwoEntriesShareAFile ==
    ~GzMode =>
        \A i, j \in Written : i # j => log[i].Path # log[j].Path

----------------------------------------------------------------------------
(* C4 *)

\* C4: in both modes every output file an extraction creates lies under the
\* directory given by -outdir, whatever -dir is.
C4_OutputUnderOutdir == \A p \in outFiles : Within(outdir, p)

----------------------------------------------------------------------------
(* C5 *)

\* C5: at the end of a successful gzip-mode run every input X.gz has an output
\* file X holding exactly its decompressed content, and the aggregate file is the
\* concatenation, in scan order, of every content followed by one newline.
\* Stated for the runs in which no write of a separator failed.
C5_GzipOutputsAndAggregate ==
    (GzMode /\ pc = "done" /\ ~sepErr) =>
        /\ Len(log) = Len(filesInDir)
        /\ \A i \in DOMAIN log :
              /\ log[i].Name = filesInDir[i]
              /\ log[i].Path = TrimSuffix(filesInDir[i], GZ)
              /\ log[i].Path \in DOMAIN files
              /\ files[log[i].Path] = log[i].Content
        /\ Agg = Payloads

----------------------------------------------------------------------------
(* C6 *)

\* C6: after a traversal error of the scan no aggregate file is created or
\* truncated, nothing is extracted and the run never reaches done.
C6_TraversalErrorAborts ==
    walkErr =>
        /\ pc # "done"
        /\ catFile = "nil" /\ catFilePath \notin DOMAIN files
        /\ log = <<>>

----------------------------------------------------------------------------
(* C8 *)

\* the successful extractions of regular entries that resolved to path P
Uses(P) == { i \in DOMAIN log : ~log[i].IsDir /\ ~log[i].Err /\ log[i].Joined = P }

\* C8: the collision counter is kept under the original path P and counts its
\* uses, so successive reuses of P get different, increasing suffixes.
C8_CounterKeyedByOriginalPath ==
    ~GzMode =>
        \A i \in DOMAIN log :
            LET P == log[i].Joined IN
            Uses(P) # {} =>
                /\ P \in DOMAIN unzipedFiles
                /\ unzipedFiles[P] = Cardinality(Uses(P))
                /\ \A j, k \in Uses(P) : j # k => log[j].Path # log[k].Path

----------------------------------------------------------------------------
(* C9 *)

\* the open of the aggregate file at process start has failed
CatOpenFailed == pc \in {"run", "done", "aborted"} /\ catFile = "nil"

\* C9: an error on the aggregate file (its open at process start, a write of the
\* newline separator) is fatal: the run never reaches done, and after a failed
\* open no output file is written.
C9_AggregateErrorsAreFatal ==
    /\ (CatOpenFailed \/ sepErr) => pc # "done"
    /\ CatOpenFailed => outFiles = {}

----------------------------------------------------------------------------
(* C10 *)

\* C10: once created, the aggregate file only grows: every extraction step leaves
\* its previous content as a prefix of its new content.
C10_AggregateAppendOnly ==
    [][(pc = "run" /\ catFile = "open") => IsPrefixOf(Agg, Agg')]_vars
====
